---- MODULE Spec2Model ----
(***************************************************************************)
(* Model of src/script.mjs: the new-listing scanner (simulateTrade), the   *)
(* position monitor (monitorTrade), the operator keys and the wall clock.  *)
(*                                                                         *)
(* Time is counted in clock steps of TimeUnit milliseconds.  Every await   *)
(* on the network (a quote, a buy, a sell) may take any number of clock    *)
(* steps, or never complete; a setTimeout fires at its due time.  Every    *)
(* time the code stores (endTime, a setTimeout's due time) is kept as its  *)
(* distance from Date.now(): storing Date.now() + d stores d, a clock step *)
(* decrements it, and Date.now() < endTime reads endTime > 0.              *)
(*                                                                         *)
(* Each run of the scanner's async message handler owns one slot h of      *)
(* Handlers; pc[h] is the await at which that run is suspended.            *)
(*                                                                         *)
(* Spec, SpecOverlap and SpecFeed are the whole program, with one handler  *)
(* run at a time, with overlapping handler runs, and on a feed that also   *)
(* sends a market cap below zero.  SpecSell and SpecApi follow one call of *)
(* sellTokens and one call of apiRequest on their own, from every          *)
(* argument and every reply of the RPC node and of the trade API.          *)
(***************************************************************************)
EXTENDS Integers, Sequences, FiniteSets

\* ------------------------------------------------------------- constants
TimeUnit == 5 * 1000
MONITOR_INTERVAL == (5 * 1000) \div TimeUnit
SELL_TIMEOUT == (2 * 60 * 1000) \div TimeUnit
COOLDOWN == 15000 \div TimeUnit
MAX_BONDING_CURVE_PROGRESS == 10
SELL_BONDING_CURVE_PROGRESS == 15
\* Line 215: raw token units per token, 10 ** 6.
TokenUnit == 1000000
API_RETRY_LIMIT == 5
\* Milliseconds.
BASE_API_DELAY == 1000

\* --------------------------------------------------------------- bounds
\* Concurrent handler runs the model keeps track of.
MaxHandlers == 2
\* Clock steps a monitor is followed past its deadline.
MaxOverdue == 2
\* Clock steps a monitor is followed after its deadline was last set, in the
\* specification with overlapping handler runs.
MaxAge == 3
\* Token accounts of the wallet in a call of sellTokens followed on its own.
MaxAccounts == 2

Handlers == 1..MaxHandlers
\* Market caps a quote can carry (Quote.marketCap >= 0).
MarketCaps == {0, 90, 100, 125}
\* Lines 330-337 copy message.marketcap without a range check: the market
\* caps of a feed that also sends a number below zero.
FeedMarketCaps == MarketCaps \cup {0 - 100}
\* Bonding-curve values a quote can carry: below the entry threshold, at the
\* entry threshold, at the sell threshold.
BondingCurves ==
    {MAX_BONDING_CURVE_PROGRESS - 5, MAX_BONDING_CURVE_PROGRESS,
     SELL_BONDING_CURVE_PROGRESS}
Quotes == [marketcap : MarketCaps, bondingCurve : BondingCurves]
FeedQuotes == [marketcap : FeedMarketCaps, bondingCurve : BondingCurves]
\* resolve(null), and the value of a local that is not in scope.
Null == [marketcap |-> -1, bondingCurve |-> -1]
\* A timer that is not armed.
Off == 0 - 1
\* What pumpFunBuy, pumpFunSell and sellTokens return: a transaction hash,
\* null (apiRequest threw, lines 176-179 and 196-199) or undefined (the
\* response has no tx_hash; sellTokens made no request, lines 243-249).
TxResults == {"hash", "null", "undefined"}

VARIABLES
    cooldownActive,   \* line 79
    cooldownTimer,    \* the setTimeout of line 371: steps until it fires, or Off
    resetTimer,       \* line 76
    continueTrade,    \* line 77
    sellImmediately,  \* line 78
    pc,               \* per handler run: the await it is suspended at
    initialMarketCap, \* monitorTrade's parameter (the candidate's market cap)
    lastMarketCap,    \* line 254
    endTime,          \* line 252, as endTime - Date.now()
    tokenInfo,        \* line 257: the quote of the current loop iteration
    wakeAt,           \* the setTimeout of line 308: steps until it fires, or Off
    sold,             \* the sellTokens calls made by the run, in order
    tickFrom,         \* Len(sold) when the current loop iteration began
    exitBy,           \* how the run left the polling loop
    extended,         \* history: line 290 has assigned endTime in this run
    pending,          \* history: the flags that were set when the current
                      \* tick's quote resolved and have not been reset since
    candidate,        \* line 374: the candidate's quote, once accepted
    txHash,           \* line 379: what pumpFunBuy returned, "none" before;
                      \* null and undefined are kept as history until the
                      \* next buy of the slot returns
    sellResult,       \* history: what the last sellTokens call of the
                      \* current loop iteration returned, "none" before
    checked,          \* history: line 282 was evaluated in the current
                      \* loop iteration
    sellTokensCall,   \* one call of sellTokens (lines 224-249) on its own
    apiRequestCall    \* one call of apiRequest (lines 133-160) on its own

vars == <<cooldownActive, cooldownTimer, resetTimer, continueTrade,
          sellImmediately, pc, initialMarketCap, lastMarketCap, endTime,
          tokenInfo, wakeAt, sold, tickFrom, exitBy, extended, pending,
          candidate, txHash, sellResult, checked,
          sellTokensCall, apiRequestCall>>

scannerVars == <<cooldownActive, cooldownTimer>>
flagVars == <<resetTimer, continueTrade, sellImmediately>>
monitorVars == <<initialMarketCap, lastMarketCap, endTime, tokenInfo, wakeAt,
                 sold, tickFrom, exitBy, extended, pending, sellResult, checked>>
buyVars == <<candidate, txHash>>
programVars == <<scannerVars, flagVars, pc, monitorVars, buyVars>>
callVars == <<sellTokensCall, apiRequestCall>>

FlagNames == {"resetTimer", "continueTrade", "sellImmediately"}

\* A call sellTokens(mint, pct / 100) and the branch that made it.
Sale(p, w) == [pct |-> p, why |-> w]

SellPcs == {"sellProfit", "sellStop", "sellCurve", "sellMilestone",
            "sellNow", "sellTimeout"}
\* monitorTrade has been called and has not returned.
MonitorPcs == {"quote", "sleep"} \cup SellPcs
\* The handler is evaluating a candidate: quote fetch or buy.
EvaluatePcs == {"candidateQuote", "buy"}

\* ------------------------------------------------------ pure functions
\* ((marketcap - initialMarketCap) / initialMarketCap) * 100 >= p, as the
\* floating-point expression of line 259 decides it: x / 0 is Infinity for
\* x > 0, -Infinity for x < 0 and NaN for x = 0, and NaN compares false.
\* Dividing by a negative initialMarketCap turns the comparison round.  For
\* the integers of FeedMarketCaps the quotient times 100 is exact at the
\* thresholds.
ChangeAtLeast(marketcap, initial, p) ==
    IF initial = 0 THEN marketcap > 0
    ELSE IF initial > 0 THEN (marketcap - initial) * 100 >= p * initial
    ELSE (marketcap - initial) * 100 =< p * initial

ChangeAtMost(marketcap, initial, p) ==
    IF initial = 0 THEN marketcap < 0
    ELSE IF initial > 0 THEN (marketcap - initial) * 100 =< p * initial
    ELSE (marketcap - initial) * 100 >= p * initial

\* Line 282 with >= for >.
AtOrAboveMilestone(marketcap, last) == marketcap * 4 >= last * 5

\* marketcap > lastMarketCap * PROFIT_TARGET_2, PROFIT_TARGET_2 = 1.25 = 5/4
AboveMilestone(marketcap, last) == marketcap * 4 > last * 5

\* Line 290 as it would read with the old deadline in place of Date.now().
ExtendedDeadlineFromOld(et) == et + SELL_TIMEOUT

\* Line 290: the deadline after resetTimer is consumed.
ExtendedDeadline(et) == SELL_TIMEOUT

\* The part of the state one step of handler run h reads and writes.
Cur(h) ==
    [pc |-> pc[h], endTime |-> endTime[h], lastMarketCap |-> lastMarketCap[h],
     resetTimer |-> resetTimer, continueTrade |-> continueTrade,
     sellImmediately |-> sellImmediately, sold |-> sold[h],
     wakeAt |-> wakeAt[h], exitBy |-> exitBy[h], extended |-> extended[h],
     checked |-> checked[h]]

\* Lines 311-315: after the loop.
AfterLoop(m) ==
    IF m.endTime =< 0
    THEN [m EXCEPT !.pc = "sellTimeout",
                   !.sold = Append(@, Sale(75, "timeout"))]
    ELSE [m EXCEPT !.pc = "returned"]

\* Lines 288-308: the override flags, then the poll delay.
Overrides(m) ==
    LET m1 == IF m.resetTimer
              THEN [m EXCEPT !.endTime = ExtendedDeadline(m.endTime),
                             !.resetTimer = FALSE, !.extended = TRUE]
              ELSE m
    IN  IF m1.continueTrade
        THEN AfterLoop([m1 EXCEPT !.continueTrade = FALSE,
                                  !.exitBy = "continue"])
        ELSE IF m1.sellImmediately
        THEN [m1 EXCEPT !.pc = "sellNow",
                        !.sold = Append(@, Sale(75, "now"))]
        ELSE [m1 EXCEPT !.pc = "sleep", !.wakeAt = MONITOR_INTERVAL]

\* Lines 282-286, up to the await of line 284.
MilestoneCheck(m, marketcap) ==
    IF AboveMilestone(marketcap, m.lastMarketCap)
    THEN [m EXCEPT !.pc = "sellMilestone", !.checked = TRUE,
                   !.sold = Append(@, Sale(75, "milestone"))]
    ELSE Overrides([m EXCEPT !.checked = TRUE])

\* Lines 259-280 with the bonding-curve test ahead of the stop-loss test.
EvaluateCurveFirst(m, q, initial) ==
    IF ChangeAtLeast(q.marketcap, initial, 25)
    THEN [m EXCEPT !.pc = "sellProfit",
                   !.sold = Append(@, Sale(50, "profit"))]
    ELSE IF q.bondingCurve >= SELL_BONDING_CURVE_PROGRESS
    THEN [m EXCEPT !.pc = "sellCurve",
                   !.sold = Append(@, Sale(75, "curve"))]
    ELSE IF ChangeAtMost(q.marketcap, initial, -10)
    THEN [m EXCEPT !.pc = "sellStop",
                   !.sold = Append(@, Sale(100, "stop"))]
    ELSE MilestoneCheck(m, q.marketcap)

\* Lines 259-280 with > for >= in the bonding-curve test of line 276.
EvaluateCurveStrict(m, q, initial) ==
    IF ChangeAtLeast(q.marketcap, initial, 25)
    THEN [m EXCEPT !.pc = "sellProfit",
                   !.sold = Append(@, Sale(50, "profit"))]
    ELSE IF ChangeAtMost(q.marketcap, initial, -10)
    THEN [m EXCEPT !.pc = "sellStop",
                   !.sold = Append(@, Sale(100, "stop"))]
    ELSE IF q.bondingCurve > SELL_BONDING_CURVE_PROGRESS
    THEN [m EXCEPT !.pc = "sellCurve",
                   !.sold = Append(@, Sale(75, "curve"))]
    ELSE MilestoneCheck(m, q.marketcap)

\* Lines 259-280, up to the first await.
Evaluate(m, q, initial) ==
    IF ChangeAtLeast(q.marketcap, initial, 25)
    THEN [m EXCEPT !.pc = "sellProfit",
                   !.sold = Append(@, Sale(50, "profit"))]
    ELSE IF ChangeAtMost(q.marketcap, initial, -10)
    THEN [m EXCEPT !.pc = "sellStop",
                   !.sold = Append(@, Sale(100, "stop"))]
    ELSE IF q.bondingCurve >= SELL_BONDING_CURVE_PROGRESS
    THEN [m EXCEPT !.pc = "sellCurve",
                   !.sold = Append(@, Sale(75, "curve"))]
    ELSE MilestoneCheck(m, q.marketcap)

\* The continuation of each await sellTokens(...) with the call made again
\* when it returned no hash.
AfterSellRetry(m, q, r) ==
    IF r # "hash"
    THEN [m EXCEPT !.sold = Append(@, m.sold[Len(m.sold)])]
    ELSE CASE m.pc = "sellProfit" ->
                MilestoneCheck([m EXCEPT !.lastMarketCap = q.marketcap,
                                         !.continueTrade = TRUE], q.marketcap)
           [] m.pc = "sellStop" -> AfterLoop([m EXCEPT !.exitBy = "stop"])
           [] m.pc = "sellCurve" -> AfterLoop([m EXCEPT !.exitBy = "curve"])
           [] m.pc = "sellMilestone" ->
                Overrides([m EXCEPT !.lastMarketCap = q.marketcap])
           [] m.pc = "sellNow" ->
                AfterLoop([m EXCEPT !.sellImmediately = FALSE,
                                    !.exitBy = "now"])
           [] m.pc = "sellTimeout" -> [m EXCEPT !.pc = "returned"]

\* The continuation of each await sellTokens(...) without the assignment
\* of line 270.
AfterSellKeepsMilestone(m, q, r) ==
    CASE m.pc = "sellProfit" ->
           MilestoneCheck([m EXCEPT !.continueTrade = TRUE], q.marketcap)
      [] m.pc = "sellStop" -> AfterLoop([m EXCEPT !.exitBy = "stop"])
      [] m.pc = "sellCurve" -> AfterLoop([m EXCEPT !.exitBy = "curve"])
      [] m.pc = "sellMilestone" ->
           Overrides([m EXCEPT !.lastMarketCap = q.marketcap])
      [] m.pc = "sellNow" ->
           AfterLoop([m EXCEPT !.sellImmediately = FALSE, !.exitBy = "now"])
      [] m.pc = "sellTimeout" -> [m EXCEPT !.pc = "returned"]

\* What follows each await sellTokens(...), up to the next await; r is what
\* the call returned, which lines 269-303 do not read.
AfterSell(m, q, r) ==
    CASE m.pc = "sellProfit" ->      \* lines 270-271, then 282
           MilestoneCheck([m EXCEPT !.lastMarketCap = q.marketcap,
                                    !.continueTrade = TRUE], q.marketcap)
      [] m.pc = "sellStop" ->        \* line 275
           AfterLoop([m EXCEPT !.exitBy = "stop"])
      [] m.pc = "sellCurve" ->       \* line 279
           AfterLoop([m EXCEPT !.exitBy = "curve"])
      [] m.pc = "sellMilestone" ->   \* line 285, then 288
           Overrides([m EXCEPT !.lastMarketCap = q.marketcap])
      [] m.pc = "sellNow" ->         \* lines 303-304
           AfterLoop([m EXCEPT !.sellImmediately = FALSE, !.exitBy = "now"])
      [] m.pc = "sellTimeout" ->     \* line 315
           [m EXCEPT !.pc = "returned"]

\* The while condition of line 256, at the end of the poll delay.
LoopTest(m) ==
    IF m.endTime > 0
    THEN [m EXCEPT !.pc = "quote"]
    ELSE AfterLoop([m EXCEPT !.exitBy = "timeout"])

\* The flags of P that are set in m.
StillSet(P, m) ==
    {f \in P : \/ f = "resetTimer" /\ m.resetTimer
               \/ f = "continueTrade" /\ m.continueTrade
               \/ f = "sellImmediately" /\ m.sellImmediately}

\* Writes the record m back as the next state of handler run h; P is the set
\* of flags that were set when the tick's quote resolved and not reset before
\* this step.
Store(h, m, P) ==
    /\ pc' = [pc EXCEPT ![h] = m.pc]
    /\ endTime' = [endTime EXCEPT ![h] = m.endTime]
    /\ lastMarketCap' = [lastMarketCap EXCEPT ![h] = m.lastMarketCap]
    /\ resetTimer' = m.resetTimer
    /\ continueTrade' = m.continueTrade
    /\ sellImmediately' = m.sellImmediately
    /\ sold' = [sold EXCEPT ![h] = m.sold]
    /\ wakeAt' = [wakeAt EXCEPT ![h] = IF m.pc = "sleep" THEN m.wakeAt ELSE Off]
    /\ exitBy' = [exitBy EXCEPT ![h] = m.exitBy]
    /\ extended' = [extended EXCEPT ![h] = m.extended]
    /\ pending' = [pending EXCEPT ![h] = StillSet(P, m)]
    /\ checked' = [checked EXCEPT ![h] = m.checked]

\* ---------------------------------------------------------------- Init
\* No call of sellTokens or apiRequest is followed on its own.
NoCall == [pc |-> "none"]

\* The program after the splash screen was dismissed.
InitProgram ==
    /\ cooldownActive = FALSE
    /\ cooldownTimer = Off
    /\ resetTimer = FALSE
    \* 'c' on the splash screen also runs the handler of line 417; Enter
    \* does not.
    /\ continueTrade \in BOOLEAN
    /\ sellImmediately = FALSE
    /\ pc = [h \in Handlers |-> "idle"]
    /\ initialMarketCap = [h \in Handlers |-> 0]
    /\ lastMarketCap = [h \in Handlers |-> 0]
    /\ endTime = [h \in Handlers |-> 0]
    /\ tokenInfo = [h \in Handlers |-> Null]
    /\ wakeAt = [h \in Handlers |-> Off]
    /\ sold = [h \in Handlers |-> <<>>]
    /\ tickFrom = [h \in Handlers |-> 0]
    /\ exitBy = [h \in Handlers |-> "none"]
    /\ extended = [h \in Handlers |-> FALSE]
    /\ pending = [h \in Handlers |-> {}]
    /\ candidate = [h \in Handlers |-> Null]
    /\ txHash = [h \in Handlers |-> "none"]
    /\ sellResult = [h \in Handlers |-> "none"]
    /\ checked = [h \in Handlers |-> FALSE]

Init == InitProgram /\ sellTokensCall = NoCall /\ apiRequestCall = NoCall

\* -------------------------------------------------------------- actions
\* Lines 368-374 without the return of line 366.
OnNewPairsInCooldown(H, h) ==
    /\ pc[h] = "idle"
    /\ \A g \in H : g < h => pc[g] # "idle"
    /\ cooldownActive' = TRUE
    /\ cooldownTimer' = COOLDOWN
    /\ pc' = [pc EXCEPT ![h] = "candidateQuote"]
    /\ UNCHANGED <<flagVars, monitorVars, buyVars, callVars>>

\* Lines 365-374: a new_pairs message while no cooldown is active.  The run
\* takes the lowest free slot of H.
OnNewPairs(H, h) ==
    /\ ~cooldownActive
    /\ pc[h] = "idle"
    /\ \A g \in H : g < h => pc[g] # "idle"
    /\ cooldownActive' = TRUE
    /\ cooldownTimer' = COOLDOWN
    /\ pc' = [pc EXCEPT ![h] = "candidateQuote"]
    /\ UNCHANGED <<flagVars, monitorVars, buyVars, callVars>>

\* Line 371: the cooldown timer fires.
CooldownExpires ==
    /\ cooldownTimer = 0
    /\ cooldownActive' = FALSE
    /\ cooldownTimer' = Off
    /\ UNCHANGED <<flagVars, pc, monitorVars, buyVars, callVars>>

\* Lines 374-379 and 384 with <= for < in line 375.
CandidateQuoteResolvesAtMost(h, q) ==
    /\ pc[h] = "candidateQuote"
    /\ IF q # Null /\ q.bondingCurve =< MAX_BONDING_CURVE_PROGRESS
       THEN /\ pc' = [pc EXCEPT ![h] = "buy"]
            /\ candidate' = [candidate EXCEPT ![h] = q]
            /\ initialMarketCap' = [initialMarketCap EXCEPT ![h] = q.marketcap]
       ELSE /\ pc' = [pc EXCEPT ![h] = "idle"]
            /\ UNCHANGED <<candidate, initialMarketCap>>
    /\ UNCHANGED <<scannerVars, flagVars, lastMarketCap, endTime,
                   tokenInfo, wakeAt, sold, tickFrom, exitBy, extended, pending,
                   sellResult, checked, txHash, callVars>>

\* Lines 374-379 and 384: the candidate's quote resolves (q = Null on a
\* connection error).
CandidateQuoteResolves(h, q) ==
    /\ pc[h] = "candidateQuote"
    /\ IF q # Null /\ q.bondingCurve < MAX_BONDING_CURVE_PROGRESS
       THEN /\ pc' = [pc EXCEPT ![h] = "buy"]
            /\ candidate' = [candidate EXCEPT ![h] = q]
            /\ initialMarketCap' = [initialMarketCap EXCEPT ![h] = q.marketcap]
       ELSE /\ pc' = [pc EXCEPT ![h] = "idle"]
            /\ UNCHANGED <<candidate, initialMarketCap>>
    /\ UNCHANGED <<scannerVars, flagVars, lastMarketCap, endTime,
                   tokenInfo, wakeAt, sold, tickFrom, exitBy, extended, pending,
                   sellResult, checked, txHash, callVars>>

\* Lines 379-384 and 251-257 with txHash !== null for txHash in line 380.
BuyReturnsUnlessNull(h, r) ==
    /\ pc[h] = "buy"
    /\ txHash' = [txHash EXCEPT ![h] = r]
    /\ IF r # "null"
       THEN /\ pc' = [pc EXCEPT ![h] = "quote"]
            /\ endTime' = [endTime EXCEPT ![h] = SELL_TIMEOUT]
            /\ lastMarketCap' = [lastMarketCap EXCEPT ![h] = initialMarketCap[h]]
            /\ UNCHANGED <<initialMarketCap, candidate>>
       ELSE /\ pc' = [pc EXCEPT ![h] = "idle"]
            /\ initialMarketCap' = [initialMarketCap EXCEPT ![h] = 0]
            /\ candidate' = [candidate EXCEPT ![h] = Null]
            /\ UNCHANGED <<endTime, lastMarketCap>>
    /\ UNCHANGED <<scannerVars, flagVars, tokenInfo, wakeAt, sold,
                   tickFrom, exitBy, extended, pending, sellResult, checked,
                   callVars>>

\* Lines 379-384 and 251-257: pumpFunBuy returns r; with a tx hash
\* monitorTrade starts and runs to its first await, with null or undefined
\* the handler ends.
BuyReturns(h, r) ==
    /\ pc[h] = "buy"
    /\ txHash' = [txHash EXCEPT ![h] = r]
    /\ IF r = "hash"
       THEN /\ pc' = [pc EXCEPT ![h] = "quote"]
            /\ endTime' = [endTime EXCEPT ![h] = SELL_TIMEOUT]
            /\ lastMarketCap' = [lastMarketCap EXCEPT ![h] = initialMarketCap[h]]
            /\ UNCHANGED <<initialMarketCap, candidate>>
       ELSE /\ pc' = [pc EXCEPT ![h] = "idle"]
            /\ initialMarketCap' = [initialMarketCap EXCEPT ![h] = 0]
            /\ candidate' = [candidate EXCEPT ![h] = Null]
            /\ UNCHANGED <<endTime, lastMarketCap>>
    /\ UNCHANGED <<scannerVars, flagVars, tokenInfo, wakeAt, sold,
                   tickFrom, exitBy, extended, pending, sellResult, checked,
                   callVars>>

\* Lines 257-308 with the if of line 258 closed at line 287, ahead of the
\* override flags.
QuoteResolvesThenFlags(h, q) ==
    /\ pc[h] = "quote"
    /\ tokenInfo' = [tokenInfo EXCEPT ![h] = q]
    /\ IF q # Null
       THEN Store(h, Evaluate(Cur(h), q, initialMarketCap[h]), FlagNames)
       ELSE Store(h, Overrides(Cur(h)), FlagNames)
    /\ UNCHANGED <<scannerVars, initialMarketCap, tickFrom, sellResult,
                   buyVars, callVars>>

\* Lines 257-308: the quote of a monitor tick resolves (q = Null on a
\* connection error); the run goes on to its next await.
QuoteResolves(h, q) ==
    /\ pc[h] = "quote"
    /\ tokenInfo' = [tokenInfo EXCEPT ![h] = q]
    /\ IF q # Null
       THEN Store(h, Evaluate(Cur(h), q, initialMarketCap[h]), FlagNames)
       ELSE Store(h, [Cur(h) EXCEPT !.pc = "sleep",
                                    !.wakeAt = MONITOR_INTERVAL], FlagNames)
    /\ UNCHANGED <<scannerVars, initialMarketCap, tickFrom, sellResult,
                   buyVars, callVars>>

\* The sellTokens call the run awaits returns r.
SellReturns(h, r) ==
    /\ pc[h] \in SellPcs
    /\ sellResult' = [sellResult EXCEPT ![h] = r]
    /\ Store(h, AfterSell(Cur(h), tokenInfo[h], r), pending[h])
    /\ UNCHANGED <<scannerVars, initialMarketCap, tokenInfo, tickFrom,
                   buyVars, callVars>>

\* Lines 308 and 256: the poll delay ends and the loop condition is tested.
SleepDone(h) ==
    /\ pc[h] = "sleep"
    /\ wakeAt[h] = 0
    /\ Store(h, LoopTest([Cur(h) EXCEPT !.checked = FALSE]), {})
    /\ tokenInfo' = [tokenInfo EXCEPT ![h] = Null]
    /\ tickFrom' = [tickFrom EXCEPT ![h] = Len(sold[h])]
    /\ sellResult' = [sellResult EXCEPT ![h] = "none"]
    /\ UNCHANGED <<scannerVars, initialMarketCap, buyVars, callVars>>

\* Lines 381-385: the handler resumes after monitorTrade and ends.
MonitorReturns(h) ==
    /\ pc[h] = "returned"
    /\ pc' = [pc EXCEPT ![h] = "idle"]
    /\ initialMarketCap' = [initialMarketCap EXCEPT ![h] = 0]
    /\ lastMarketCap' = [lastMarketCap EXCEPT ![h] = 0]
    /\ endTime' = [endTime EXCEPT ![h] = 0]
    /\ tokenInfo' = [tokenInfo EXCEPT ![h] = Null]
    /\ sold' = [sold EXCEPT ![h] = <<>>]
    /\ tickFrom' = [tickFrom EXCEPT ![h] = 0]
    /\ exitBy' = [exitBy EXCEPT ![h] = "none"]
    /\ extended' = [extended EXCEPT ![h] = FALSE]
    /\ pending' = [pending EXCEPT ![h] = {}]
    /\ sellResult' = [sellResult EXCEPT ![h] = "none"]
    /\ checked' = [checked EXCEPT ![h] = FALSE]
    /\ candidate' = [candidate EXCEPT ![h] = Null]
    /\ txHash' = [txHash EXCEPT ![h] = "none"]
    /\ UNCHANGED <<scannerVars, flagVars, wakeAt, callVars>>

\* Lines 412-415.
KeyR ==
    /\ resetTimer' = TRUE
    /\ UNCHANGED <<scannerVars, continueTrade, sellImmediately, pc, monitorVars, buyVars,
                   callVars>>

\* Lines 417-420.
KeyC ==
    /\ continueTrade' = TRUE
    /\ UNCHANGED <<scannerVars, resetTimer, sellImmediately, pc, monitorVars, buyVars,
                   callVars>>

\* Lines 422-425.
KeyS ==
    /\ sellImmediately' = TRUE
    /\ UNCHANGED <<scannerVars, resetTimer, continueTrade, pc, monitorVars, buyVars,
                   callVars>>

\* The wall clock advances one step.  No due timer is passed over, and no
\* monitor is followed to endTime - Date.now() below floor.
Tick(floor) ==
    /\ cooldownTimer # 0
    /\ \A h \in Handlers : wakeAt[h] # 0
    /\ \A h \in Handlers : pc[h] \in MonitorPcs => endTime[h] > floor
    /\ cooldownTimer' = IF cooldownTimer > 0 THEN cooldownTimer - 1 ELSE cooldownTimer
    /\ wakeAt' = [h \in Handlers |-> IF wakeAt[h] > 0 THEN wakeAt[h] - 1 ELSE wakeAt[h]]
    /\ endTime' = [h \in Handlers |->
                      IF pc[h] \in MonitorPcs THEN endTime[h] - 1 ELSE endTime[h]]
    /\ UNCHANGED <<cooldownActive, flagVars, pc, initialMarketCap, lastMarketCap,
                   tokenInfo, sold, tickFrom, exitBy, extended, pending,
                   sellResult, checked, buyVars, callVars>>

\* One step of the handler runs in H, with the feed's quotes drawn from Q
\* and the results of the trade calls from R.
HandlerStep(H, Q, R) ==
    \E h \in H :
        \/ OnNewPairs(H, h)
        \/ \E q \in Q \cup {Null} : CandidateQuoteResolves(h, q)
        \/ \E r \in R : BuyReturns(h, r)
        \/ \E q \in Q \cup {Null} : QuoteResolves(h, q)
        \/ \E r \in R : SellReturns(h, r)
        \/ SleepDone(h)
        \/ MonitorReturns(h)

Keys == KeyR \/ KeyC \/ KeyS

\* The program with one handler run at a time: no new_pairs message arrives
\* while a handler run is in progress.  Every monitor is followed until
\* MaxOverdue clock steps past its deadline.
Next ==
    \/ HandlerStep({1}, Quotes, TxResults)
    \/ CooldownExpires
    \/ Keys
    \/ Tick(0 - MaxOverdue)

Spec == Init /\ [][Next]_vars

\* The program with overlapping handler runs and no key pressed; every
\* monitor is followed for MaxAge clock steps, and every trade call
\* returns a hash.
NextOverlap ==
    \/ HandlerStep(Handlers, Quotes, {"hash"})
    \/ CooldownExpires
    \/ Tick(SELL_TIMEOUT - MaxAge)

SpecOverlap == Init /\ [][NextOverlap]_vars

\* The program with one handler run at a time and no key pressed, on a feed
\* whose market caps are not all >= 0.
NextFeed ==
    \/ HandlerStep({1}, FeedQuotes, TxResults)
    \/ CooldownExpires
    \/ Tick(0 - MaxOverdue)

SpecFeed == Init /\ [][NextFeed]_vars

\* ------------------------------------------------- sellTokens on its own
Mints == {"A", "B"}
\* Raw balances of a token account: 0.5, 1, 1.5, 2 and 3 tokens.
RawAmounts ==
    {TokenUnit \div 2, TokenUnit, TokenUnit + TokenUnit \div 2, 2 * TokenUnit,
     3 * TokenUnit}
TokenAccounts == [mint : Mints, amount : RawAmounts]
\* The wallets getTokenAccountsByOwner can return, in the order it returns
\* the accounts.
Wallets == UNION {[1..n -> TokenAccounts] : n \in 0..MaxAccounts}
\* The sellPercentage arguments of lines 269, 274, 278, 284, 302 and 313, in
\* percent.
SellPercentages == {50, 75, 100}

\* Line 217: token.amount > 1, with token.amount = raw / 10 ** 6.
MoreThanOne(t) == t.amount > TokenUnit

\* Lines 210-217: the accounts fetchSPLTokens returns.
FetchSPLTokens(accounts) == SelectSeq(accounts, MoreThanOne)

\* Line 228: token.amount * sellPercentage, in hundredths of a raw unit.
AmountToSell(t, pct) == t.amount * pct

\* Line 229 with > 0 for >= 1.
SellsDust(a) == a > 0

\* Line 229: amountToSell >= 1.  The products of RawAmounts and
\* SellPercentages are exact in floating point.
Sellable(a) == a >= TokenUnit * 100

\* Lines 226-227 and 246: the index in tokens of the first token of the mint, 0
\* when there is none.
FirstOfMint(tokens, mint) ==
    IF \E i \in DOMAIN tokens : tokens[i].mint = mint
    THEN CHOOSE i \in DOMAIN tokens :
             /\ tokens[i].mint = mint
             /\ \A j \in 1..(i - 1) : tokens[j].mint # mint
    ELSE 0

\* A call sellTokens(mint, pct / 100) on a wallet, suspended at line 225.
InitSell ==
    /\ InitProgram /\ ~continueTrade
    /\ apiRequestCall = NoCall
    /\ sellTokensCall \in
          [pc : {"fetch"}, accounts : Wallets, mint : Mints,
           sellPercentage : SellPercentages, tokens : {<<>>},
           requests : {<<>>}, result : {"none"}]

\* Lines 225-248: fetchSPLTokens returns (the empty list when the RPC call
\* failed, lines 218-221) and the loop over the tokens runs up to the await
\* of line 234 or to the end of the function.
SellTokensFetched(ok) ==
    /\ sellTokensCall.pc = "fetch"
    /\ LET c == sellTokensCall
           tokens == IF ok THEN FetchSPLTokens(c.accounts) ELSE <<>>
           i == FirstOfMint(tokens, c.mint)
       IN  sellTokensCall' =
               IF i # 0 /\ Sellable(AmountToSell(tokens[i], c.sellPercentage))
               THEN [c EXCEPT !.pc = "sell", !.tokens = tokens,
                              !.requests = Append(@,
                                  [mint |-> c.mint,
                                   amount |-> AmountToSell(tokens[i],
                                                           c.sellPercentage)])]
               ELSE [c EXCEPT !.pc = "done", !.tokens = tokens,
                              !.result = "undefined"]
    /\ UNCHANGED <<programVars, apiRequestCall>>

\* Lines 234-242: pumpFunSell returns r, which sellTokens returns.
PumpFunSellReturns(r) ==
    /\ sellTokensCall.pc = "sell"
    /\ sellTokensCall' = [sellTokensCall EXCEPT !.pc = "done", !.result = r]
    /\ UNCHANGED <<programVars, apiRequestCall>>

NextSell ==
    \/ \E ok \in BOOLEAN : SellTokensFetched(ok)
    \/ \E r \in TxResults : PumpFunSellReturns(r)

SpecSell == InitSell /\ [][NextSell]_vars

\* ------------------------------------------------- apiRequest on its own
\* error.response.headers['retry-after'] of a 429 response: not sent, or a
\* number of seconds.
Absent == 0 - 1
RetryAfterHeaders == {Absent, 0, 3}
\* What axios.post does: resolves (status 200), rejects without a response
\* (status 0), or rejects with a response of status 500 or 429.
Replies ==
    [status : {200, 0, 500}, retryAfter : {Absent}]
        \cup [status : {429}, retryAfter : RetryAfterHeaders]

\* Line 146: headers['retry-after'] * 1000 || delay.  undefined * 1000 is
\* NaN, and NaN and 0 are falsy.
RetryAfterOrDelay(header, delay) ==
    IF header = Absent \/ header * 1000 = 0 THEN delay ELSE header * 1000

\* A call apiRequest(url, data, retries), suspended at the axios.post of its
\* first attempt (line 139).
InitApi ==
    /\ InitProgram /\ ~continueTrade
    /\ sellTokensCall = NoCall
    /\ apiRequestCall \in
          [pc : {"post"}, retries : 1..API_RETRY_LIMIT, attempt : {0},
           delay : {BASE_API_DELAY}, replies : {<<>>}, waits : {<<>>},
           posts : {1}]

\* Lines 139-156: the POST settles with reply; the call returns, throws, or
\* starts the wait of line 156.
ApiReply(reply) ==
    /\ apiRequestCall.pc = "post"
    /\ LET c == [apiRequestCall EXCEPT !.replies = Append(@, reply)]
           delay == IF reply.status = 429
                    THEN RetryAfterOrDelay(reply.retryAfter, c.delay)
                    ELSE c.delay
       IN  apiRequestCall' =
               IF reply.status = 200
               THEN [c EXCEPT !.pc = "returned"]
               ELSE IF c.attempt + 1 >= c.retries
               THEN [c EXCEPT !.pc = "thrown", !.attempt = @ + 1,
                              !.delay = delay]
               ELSE [c EXCEPT !.pc = "wait", !.attempt = @ + 1,
                              !.delay = delay, !.waits = Append(@, delay)]
    /\ UNCHANGED <<programVars, sellTokensCall>>

\* Lines 156-157, 137 and 139: the wait ends, delay doubles and the next
\* POST is sent.
ApiWaitDone ==
    /\ apiRequestCall.pc = "wait"
    /\ apiRequestCall.attempt < apiRequestCall.retries
    /\ apiRequestCall' = [apiRequestCall EXCEPT !.pc = "post", !.delay = @ * 2,
                                                !.posts = @ + 1]
    /\ UNCHANGED <<programVars, sellTokensCall>>

NextApi == (\E reply \in Replies : ApiReply(reply)) \/ ApiWaitDone

SpecApi == InitApi /\ [][NextApi]_vars

TypeOK ==
    /\ cooldownActive \in BOOLEAN
    /\ cooldownTimer \in Off..COOLDOWN
    /\ pc \in [Handlers -> {"idle", "returned"} \cup EvaluatePcs \cup MonitorPcs]
    /\ \A h \in Handlers : tokenInfo[h] \in FeedQuotes \cup {Null}
    /\ \A h \in Handlers : candidate[h] \in FeedQuotes \cup {Null}
    /\ txHash \in [Handlers -> TxResults \cup {"none"}]
    /\ sellResult \in [Handlers -> TxResults \cup {"none"}]
    /\ checked \in [Handlers -> BOOLEAN]
    /\ \A h \in Handlers : endTime[h] \in (0 - MaxOverdue)..SELL_TIMEOUT

\* ================================================================ claims
\* The sellTokens calls of the current loop iteration of run h.
TickSales(h) == SubSeq(sold[h], tickFrom[h] + 1, Len(sold[h]))

\* The current tick of run h has a resolved quote.
Resolved(h) == pc[h] \in MonitorPcs \cup {"returned"} /\ tokenInfo[h] # Null

\* The current tick of run h is over: the run waits for the next poll or has
\* left the loop.
TickOver(h) == pc[h] \in {"sleep", "returned", "sellTimeout"}

\* marketCapChangePct of the tick's quote, compared as the real number (or
\* the IEEE infinity) it is.
PctAtLeast25(h) ==
    LET mc == tokenInfo[h].marketcap
        i == initialMarketCap[h]
    IN  \/ i > 0 /\ (mc - i) * 100 >= 25 * i
        \/ i = 0 /\ mc > 0

PctAtMostMinus10(h) ==
    LET mc == tokenInfo[h].marketcap
        i == initialMarketCap[h]
    IN  i > 0 /\ (mc - i) * 100 =< (0 - 10) * i

PctBetween(h) ==
    LET mc == tokenInfo[h].marketcap
        i == initialMarketCap[h]
    IN  i > 0 /\ (mc - i) * 100 > (0 - 10) * i /\ (mc - i) * 100 < 25 * i

NoFlagSet == ~resetTimer /\ ~continueTrade /\ ~sellImmediately

\* C1: no handler run evaluates a candidate (quote fetch, buy) or monitors a
\* position while the monitorTrade of another handler run has not returned.
C1_OneMonitorAtATime ==
    \A g, h \in Handlers :
        g # h /\ pc[g] \in MonitorPcs => pc[h] \notin EvaluatePcs \cup MonitorPcs

\* C2: when the tick's quote has marketCapChangePct >= 25 and no override
\* flag is set, the step that follows the 50% sell leaves the run waiting for
\* the next poll, with that 50% sell the tick's only sell and
\* lastMarketCap the quote's market cap.
C2_ProfitTickGoesOn ==
    [][\A h \in Handlers :
          (pc[h] = "sellProfit" /\ pc'[h] # "sellProfit"
             /\ PctAtLeast25(h) /\ NoFlagSet)
          => /\ pc'[h] = "sleep"
             /\ TickSales(h)' = <<Sale(50, "profit")>>
             /\ lastMarketCap'[h] = tokenInfo[h].marketcap]_vars

\* C3: on a tick whose quote has marketCapChangePct <= -10, whatever its
\* bondingCurve, the tick's first sell is the 100% stop-loss sell, the
\* tick issues no bonding-curve sell, and the run does not go back to
\* polling: it left the loop through the stop-loss break.
C3_StopLossFirst ==
    \A h \in Handlers :
        Resolved(h) /\ PctAtMostMinus10(h)
        => /\ TickSales(h) # <<>>
           /\ Head(TickSales(h)) = Sale(100, "stop")
           /\ \A i \in DOMAIN TickSales(h) : TickSales(h)[i].why # "curve"
           /\ pc[h] \in {"sellStop", "sellTimeout", "returned"}
           /\ pc[h] # "sellStop" => exitBy[h] = "stop"

\* C3 witness: a stop-loss tick whose quote also met the bonding-curve
\* threshold has left the loop.
C3_Witness ==
    \E h \in Handlers :
        /\ Resolved(h) /\ PctAtMostMinus10(h)
        /\ tokenInfo[h].bondingCurve >= SELL_BONDING_CURVE_PROGRESS
        /\ pc[h] = "returned" /\ exitBy[h] = "stop"

\* C4, first part: on a tick whose quote has -10 < marketCapChangePct < 25
\* and bondingCurve >= SELL_BONDING_CURVE_PROGRESS, the tick's first sell is
\* the 75% bonding-curve sell and the run leaves the loop through that break.
C4_CurveSells ==
    \A h \in Handlers :
        (Resolved(h) /\ PctBetween(h)
           /\ tokenInfo[h].bondingCurve >= SELL_BONDING_CURVE_PROGRESS)
        => /\ TickSales(h) # <<>>
           /\ Head(TickSales(h)) = Sale(75, "curve")
           /\ pc[h] \in {"sellCurve", "sellTimeout", "returned"}
           /\ pc[h] # "sellCurve" => exitBy[h] = "curve"

\* C4, second part: when such a quote has bondingCurve below the threshold
\* and no override flag is set as it resolves, the step issues no sell and
\* leaves the run waiting for the next poll.
C4_QuietTickStep ==
    \A h \in Handlers :
        (pc[h] = "quote" /\ pc'[h] # "quote" /\ tokenInfo'[h] # Null
           /\ PctBetween(h)'
           /\ tokenInfo'[h].bondingCurve < SELL_BONDING_CURVE_PROGRESS
           /\ NoFlagSet)
        => pc'[h] = "sleep" /\ sold'[h] = sold[h]

\* C4: both parts.
C4_CurveBranch == []C4_CurveSells /\ [][C4_QuietTickStep]_vars

\* C4 witness: a tick in the middle market-cap range, with bondingCurve at
\* the sell threshold, has sold 75% and left the loop.
C4_Witness ==
    \E h \in Handlers :
        /\ Resolved(h) /\ PctBetween(h)
        /\ tokenInfo[h].bondingCurve = SELL_BONDING_CURVE_PROGRESS
        /\ pc[h] = "returned" /\ exitBy[h] = "curve"
        /\ sold[h] = <<Sale(75, "curve")>>

\* C5: a run in which no branch has sold, no flag is set and the deadline
\* was never extended is out of the polling loop, its one sell the 75%
\* timeout sell, no later than one poll interval after its deadline.
C5_TimeoutExit ==
    \A h \in Handlers :
        /\ (pc[h] \in {"quote", "sleep"} /\ sold[h] = <<>> /\ NoFlagSet
              /\ ~extended[h])
           => endTime[h] >= 0 - MONITOR_INTERVAL
        /\ exitBy[h] = "timeout" => sold[h] = <<Sale(75, "timeout")>>

\* C6: a run that left the loop through the stop-loss, bonding-curve,
\* sellImmediately or continueTrade break issues no timeout sell.
C6_NoSellAfterTerminal ==
    \A h \in Handlers :
        exitBy[h] \in {"stop", "curve", "now", "continue"}
        => \A i \in DOMAIN sold[h] : sold[h][i].why # "timeout"

\* C7: when a tick is over, every flag that was set when its quote resolved
\* (or failed to resolve) has been reset.
C7_FlagsConsumedInTick ==
    \A h \in Handlers : TickOver(h) => pending[h] = {}

\* C8: a run that left the loop by consuming continueTrade issues no sell
\* from then on; the only sell after the loop is the timeout sell.
C8_ContinueSellsNothing ==
    \A h \in Handlers :
        exitBy[h] = "continue"
        => pc[h] # "sellTimeout" /\ (sold[h] = <<>> \/ sold[h][Len(sold[h])].why # "timeout")

\* C9: a step of a running monitor that resets resetTimer leaves the deadline
\* exactly SELL_TIMEOUT ahead of the clock, and a step that does not reset
\* resetTimer leaves the deadline where it was (a clock step brings the
\* clock one step nearer to it).
C9_ResetTimerStep ==
    \A h \in Handlers :
        (pc[h] \in MonitorPcs /\ pc'[h] \in MonitorPcs \cup {"returned"})
        => /\ (resetTimer /\ ~resetTimer' /\ pc'[h] # pc[h])
              => endTime'[h] = SELL_TIMEOUT
           /\ ~(resetTimer /\ ~resetTimer')
              => \/ endTime'[h] = endTime[h]
                 \/ pc'[h] = pc[h] /\ endTime'[h] = endTime[h] - 1
           /\ (~resetTimer /\ resetTimer') => UNCHANGED <<pc, endTime>>

C9_ResetTimerOnce == [][C9_ResetTimerStep]_vars

\* C9 witness: a monitor whose deadline was extended after time had passed
\* waits for its next poll with resetTimer false, and the extended deadline
\* has since come nearer.
C9_Witness ==
    \E h \in Handlers :
        /\ pc[h] = "quote" /\ extended[h] /\ ~resetTimer
        /\ endTime[h] = SELL_TIMEOUT - 2 * MONITOR_INTERVAL

\* C10: when sellImmediately is set, continueTrade is not, and the tick's
\* quote meets no threshold, the step goes to the 75% sell; and a run that
\* left the loop through the sellImmediately break has returned with that
\* sell its tick's only sell.
C10_SellNowStep ==
    \A h \in Handlers :
        (pc[h] = "quote" /\ pc'[h] # "quote" /\ tokenInfo'[h] # Null
           /\ PctBetween(h)'
           /\ tokenInfo'[h].bondingCurve < SELL_BONDING_CURVE_PROGRESS
           /\ sellImmediately /\ ~continueTrade)
        => pc'[h] = "sellNow" /\ sold'[h] = Append(sold[h], Sale(75, "now"))

C10_SellNowExit ==
    \A h \in Handlers :
        exitBy[h] = "now"
        => pc[h] = "returned" /\ TickSales(h) = <<Sale(75, "now")>>

C10_SellImmediately == [][C10_SellNowStep]_vars /\ []C10_SellNowExit

\* The step of run h that evaluates the milestone check of line 282 issues
\* the 75% milestone sell exactly when the quote's market cap is above 1.25
\* times lastMarketCap as the check reads it (the profit branch has set it
\* to the quote's market cap by then), and the step that follows the
\* milestone sell sets lastMarketCap to the quote's market cap.
C11_CheckStep ==
    \A h \in Handlers :
        /\ (~checked[h] /\ checked'[h])
           => LET mc == tokenInfo'[h].marketcap
                  last == IF pc[h] = "sellProfit" THEN mc ELSE lastMarketCap[h]
              IN  IF mc * 4 > last * 5
                  THEN /\ pc'[h] = "sellMilestone"
                       /\ sold'[h] = Append(sold[h], Sale(75, "milestone"))
                  ELSE /\ pc'[h] # "sellMilestone"
                       /\ \A i \in DOMAIN TickSales(h)' :
                             TickSales(h)'[i].why # "milestone"
        /\ (pc[h] = "sellMilestone" /\ pc'[h] # "sellMilestone")
           => lastMarketCap'[h] = tokenInfo[h].marketcap

C12_SellOnlyWholeTokens ==
    LET c == sellTokensCall
        held == {i \in DOMAIN c.accounts : c.accounts[i].mint = c.mint}
    IN  c.pc # "none"
        => /\ Len(c.requests) =< 1
           /\ \A k \in DOMAIN c.requests :
                 /\ c.requests[k].mint = c.mint
                 /\ c.requests[k].amount >= 100 * TokenUnit
                 /\ \E i \in held :
                       c.requests[k].amount
                           = c.accounts[i].amount * c.sellPercentage
           /\ (\A i \in held :
                   c.accounts[i].amount * c.sellPercentage < 100 * TokenUnit)
              => c.requests = <<>>

\* C12 witness: a call has ended without a request because the first
\* account of the mint gives less than one token, though a later account of
\* the mint would give more.
C12_Witness ==
    LET c == sellTokensCall
    IN  /\ c.pc = "done" /\ c.requests = <<>> /\ c.result = "undefined"
        /\ Len(c.tokens) = 2
        /\ c.tokens[1].mint = c.mint /\ c.tokens[2].mint = c.mint
        /\ c.tokens[2].amount * c.sellPercentage >= 100 * TokenUnit

\* C13, as a step: while cooldownActive is true no handler run begins (no
\* quote fetch, no buy); the step that sets cooldownActive arms its timer
\* one cooldown window ahead, no later step re-arms it, and cooldownActive
\* becomes false in the step in which that timer is due.
C13_CooldownStep ==
    /\ cooldownActive => \A h \in Handlers : pc[h] = "idle" => pc'[h] = "idle"
    /\ (~cooldownActive /\ cooldownActive') => cooldownTimer' = COOLDOWN
    /\ (cooldownActive /\ cooldownActive')
       => cooldownTimer' \in {cooldownTimer, cooldownTimer - 1}
    /\ (cooldownActive /\ ~cooldownActive') => cooldownTimer = 0
    /\ cooldownTimer = 0 => cooldownTimer' \in {0, Off}

\* C13: cooldownActive is true exactly while its timer is armed, and every
\* step is as C13_CooldownStep says, whatever the handler run is doing.
C13_Cooldown ==
    /\ [](cooldownActive <=> cooldownTimer \in 0..COOLDOWN)
    /\ [][C13_CooldownStep]_vars

\* C13 witness: the cooldown has cleared while the position of the
\* candidate that set it is still monitored.
C13_Witness ==
    \E h \in Handlers :
        /\ pc[h] \in MonitorPcs
        /\ ~cooldownActive /\ cooldownTimer = Off
        /\ endTime[h] = SELL_TIMEOUT - COOLDOWN

\* C14: after pumpFunBuy returned null (apiRequest threw) or undefined (no
\* tx_hash) to a handler run, the run has ended without calling
\* monitorTrade: its slot monitors nothing and has sold nothing, and is idle
\* or evaluating a later candidate.
C14_FailedBuyOpensNothing ==
    \A h \in Handlers :
        txHash[h] \in {"null", "undefined"}
        => /\ pc[h] \in {"idle"} \cup EvaluatePcs
           /\ sold[h] = <<>>
           /\ pc[h] # "buy" => candidate[h] = Null

\* C14, as a step: the step in which pumpFunBuy returns null or undefined
\* ends the handler run and leaves the cooldown as it is.
C14_FailedBuyStep ==
    \A h \in Handlers :
        (pc[h] = "buy" /\ pc'[h] # "buy" /\ txHash'[h] # "hash")
        => pc'[h] = "idle" /\ UNCHANGED <<scannerVars, flagVars, sold>>

C14_FailedBuy == []C14_FailedBuyOpensNothing /\ [][C14_FailedBuyStep]_vars

\* C14 witness: after a buy that returned no tx_hash, the scanner has
\* accepted a later candidate and is buying it.
C14_Witness ==
    \E h \in Handlers : txHash[h] = "undefined" /\ pc[h] = "buy"

\* C15: a handler run that is buying, or has bought and is monitoring, holds
\* a candidate quote that resolved with bondingCurve below
\* MAX_BONDING_CURVE_PROGRESS.
C15_BoughtIsEligible ==
    \A h \in Handlers :
        pc[h] \in {"buy", "returned"} \cup MonitorPcs
        => /\ candidate[h] # Null
           /\ candidate[h].bondingCurve < MAX_BONDING_CURVE_PROGRESS
           /\ candidate[h].marketcap = initialMarketCap[h]

\* C15, as a step: the step in which the candidate's quote resolves either
\* submits the buy or ends the handler run, and a run that ends there has
\* started no monitor and sold nothing.
C15_CandidateStep ==
    \A h \in Handlers :
        (pc[h] = "candidateQuote" /\ pc'[h] # "candidateQuote")
        => \/ pc'[h] = "buy"
           \/ pc'[h] = "idle" /\ candidate'[h] = Null /\ sold'[h] = <<>>

C15_EligibleOnly == []C15_BoughtIsEligible /\ [][C15_CandidateStep]_vars

\* C15 witness: a buy has been submitted for a candidate whose quote has
\* bondingCurve below the threshold.
C15_Witness ==
    \E h \in Handlers :
        /\ pc[h] = "buy"
        /\ candidate[h] # Null
        /\ candidate[h].bondingCurve = MAX_BONDING_CURVE_PROGRESS - 5

\* C17: the step in which a monitor tick's quote resolves to null starts
\* the poll delay of one MONITOR_INTERVAL and changes nothing else: no sell,
\* no milestone check, lastMarketCap, the deadline and the override flags
\* as they were, the run still in the loop.
C17_NullQuoteStep ==
    \A h \in Handlers :
        (pc[h] = "quote" /\ pc'[h] # "quote" /\ tokenInfo'[h] = Null)
        => /\ pc'[h] = "sleep"
           /\ wakeAt'[h] = MONITOR_INTERVAL
           /\ sold'[h] = sold[h]
           /\ ~checked'[h]
           /\ exitBy'[h] = "none"
           /\ UNCHANGED <<lastMarketCap, endTime, flagVars, initialMarketCap>>

C17_NullQuoteTick == [][C17_NullQuoteStep]_vars

\* C17 witness: a tick whose quote resolved to null waits for the next poll
\* with all three override flags still set and the deadline passed.
C17_Witness ==
    \E h \in Handlers :
        /\ pc[h] = "sleep" /\ tokenInfo[h] = Null
        /\ wakeAt[h] = MONITOR_INTERVAL
        /\ resetTimer /\ continueTrade /\ sellImmediately
        /\ endTime[h] < 0

\* C18: the step in which a sellTokens call of the monitor returns, with a
\* hash, with null (the sell failed) or with undefined (dust, or the mint
\* not held), does not make the call again; after the stop-loss,
\* bonding-curve and sellImmediately sells it leaves the loop, and after the
\* profit and milestone sells it sets lastMarketCap to the quote's market
\* cap.
C18_SellReturnStep ==
    \A h \in Handlers :
        (pc[h] \in SellPcs /\ <<pc[h], sold[h]>>' # <<pc[h], sold[h]>>)
        => /\ pc'[h] # pc[h]
           /\ \/ sold'[h] = sold[h]
              \/ /\ Len(sold'[h]) = Len(sold[h]) + 1
                 /\ SubSeq(sold'[h], 1, Len(sold[h])) = sold[h]
                 /\ sold'[h][Len(sold'[h])].why # sold[h][Len(sold[h])].why
           /\ pc[h] = "sellStop"
              => pc'[h] \in {"returned", "sellTimeout"} /\ exitBy'[h] = "stop"
           /\ pc[h] = "sellCurve"
              => pc'[h] \in {"returned", "sellTimeout"} /\ exitBy'[h] = "curve"
           /\ pc[h] = "sellNow"
              => /\ pc'[h] \in {"returned", "sellTimeout"}
                 /\ exitBy'[h] = "now" /\ ~sellImmediately'
           /\ pc[h] \in {"sellProfit", "sellMilestone"}
              => lastMarketCap'[h] = tokenInfo[h].marketcap

C18_SellOutcomeIgnored == [][C18_SellReturnStep]_vars

\* C18 witness: the stop-loss sell failed and the run has left the loop and
\* returned with that one sell.
C18_Witness ==
    \E h \in Handlers :
        /\ sellResult[h] = "null" /\ exitBy[h] = "stop"
        /\ pc[h] = "returned"
        /\ sold[h] = <<Sale(100, "stop")>>

C20_MonitorStartStep ==
    \A h \in Handlers : (pc[h] = "buy" /\ pc'[h] = "quote") => NoFlagSet'

C20_FlagsFalseAtStart == [][C20_MonitorStartStep]_vars

\* The backoff value when the k-th wait of the call begins: BASE_API_DELAY
\* before the first wait, twice the wait before after that.
BackoffAt(k) ==
    IF k = 1 THEN BASE_API_DELAY ELSE 2 * apiRequestCall.waits[k - 1]

\* C16, attempts: a call makes at most retries POSTs, one per reply and one
\* more while a POST is pending; it returns on the first reply that is a
\* success, and it throws on the retries-th failure, having waited after
\* every failure but the last.
C16_Attempts ==
    LET c == apiRequestCall
        failed(k) == c.replies[k].status # 200
    IN  c.pc # "none"
        => /\ c.posts =< c.retries
           /\ c.posts = Len(c.replies) + (IF c.pc = "post" THEN 1 ELSE 0)
           /\ \A k \in 1..(Len(c.replies) - 1) : failed(k)
           /\ c.pc = "returned" <=> (c.replies # <<>> /\ ~failed(Len(c.replies)))
           /\ c.pc = "thrown"
              <=> (Len(c.replies) = c.retries /\ failed(c.retries))
           /\ c.pc = "thrown" => Len(c.waits) = c.retries - 1
           /\ c.pc \in {"wait", "post"} => Len(c.waits) = c.posts - 1 + (IF c.pc = "wait" THEN 1 ELSE 0)

\* C16, waits without a 429: the wait before attempt k+1 is
\* BASE_API_DELAY * 2^(k-1).
C16_Backoff ==
    LET c == apiRequestCall
    IN  (c.pc # "none" /\ \A k \in DOMAIN c.replies : c.replies[k].status # 429)
        => \A k \in DOMAIN c.waits : c.waits[k] = BASE_API_DELAY * 2 ^ (k - 1)

\* C16, waits after a 429 whose retry-after header is not a zero: with the
\* header the wait is its value in seconds, without it the backoff value.
C16_RateLimitedNonZero ==
    LET c == apiRequestCall
    IN  c.pc # "none"
        => \A k \in DOMAIN c.waits :
              (c.replies[k].status = 429 /\ c.replies[k].retryAfter # 0)
              => c.waits[k] = IF c.replies[k].retryAfter # Absent
                              THEN c.replies[k].retryAfter * 1000
                              ELSE BackoffAt(k)

\* C16, waits after a 429: with a retry-after header the wait is the
\* header's value in seconds, without it the backoff value.
C16_RateLimited ==
    LET c == apiRequestCall
    IN  c.pc # "none"
        => \A k \in DOMAIN c.waits :
              c.replies[k].status = 429
              => c.waits[k] = IF c.replies[k].retryAfter # Absent
                              THEN c.replies[k].retryAfter * 1000
                              ELSE BackoffAt(k)

\* C16: the three parts.
C16_ApiRequest == C16_Attempts /\ C16_Backoff /\ C16_RateLimited
====
